---- MODULE Spec2Model ----
(***************************************************************************)
(* Model of src/index.js of create-initializer: the scaffolding pipeline   *)
(* `create` and the helpers it calls (isEmptyDir, exists, getYargsOptions, *)
(* installDeps, spawnPromise, initGit, getContact).                        *)
(*                                                                         *)
(* A JavaScript string is a sequence of atoms (TLA+ strings): template     *)
(* literals and path joins are sequence concatenation, so a message can be *)
(* inspected for what it contains.  A path is the sequence of its          *)
(* components, an absolute path starting with the component "/".           *)
(***************************************************************************)
EXTENDS Integers, Sequences, FiniteSets, TLC

\* ---------------------------------------------------------------- bounds
MaxTemplates == 2
MaxDirEntries == 2

\* ------------------------------------------------------- values and errors
\* JavaScript `undefined`, as a value distinct from every string
Undefined == <<"#undefined">>

\* `${v}` : undefined is spelled out, a string is itself
Tmpl(v) == IF v = Undefined THEN <<"undefined">> ELSE v

\* JavaScript truthiness of a string-or-undefined value
Truthy(v) == v # Undefined /\ v # <<>>

\* exitCode of an error object that has no exitCode property
NoExitCode == -1

\* the exit status the shell reports for a command it cannot find
GitNotFound == 127

\* new Error(message)
NewError(msg) == [message |-> msg, exitCode |-> NoExitCode]

\* the error execa rejects with when the command exits with `code`
ExecaError(cmd, code) == [message |-> <<"Command failed: ">> \o cmd, exitCode |-> code]

NoError == [message |-> <<>>, exitCode |-> NoExitCode]

\* ------------------------------------------------------------------ paths
IsAbsolute(p) == Len(p) > 0 /\ p[1] = "/"

\* path.resolve(from, to) for an absolute `from`
PathResolve(from, to) == IF IsAbsolute(to) THEN to ELSE from \o to

\* path.basename(p)
Basename(p) == <<p[Len(p)]>>

\* process.cwd() when create is called
Cwd0 == <<"/", "work", "demo">>

\* ---------------------------------------------------------------- helpers
\* getContact(author, email)
getContact(author, email) ==
    Tmpl(author) \o (IF Truthy(email) THEN <<" <">> \o Tmpl(email) \o <<">">> ELSE <<>>)

\* isEmptyDir without the comparison of the length with 0
isEmptyDir_AnyLength(readdir) ==
    IF readdir.err = "none" THEN <<"return", TRUE>>
    ELSE IF readdir.err = "ENOENT" THEN <<"return", TRUE>>
    ELSE <<"throw", readdir.err>>

\* isEmptyDir(dirname), given what fs.readdir does: "ENOENT", another error
\* code, or the number of entries read.  Returns <<"throw", code>> or
\* <<"return", boolean>>.
isEmptyDir(readdir) ==
    IF readdir.err = "none" THEN <<"return", readdir.entries = 0>>
    ELSE IF readdir.err = "ENOENT" THEN <<"return", TRUE>>
    ELSE <<"throw", readdir.err>>

\* exists answering true without looking at what fs.stat said
exists_AlwaysTrue(stat) == <<"return", TRUE>>

\* exists answering true where fs.stat says ENOENT
exists_EnoentTrue(stat) ==
    IF stat = "ok" THEN <<"return", TRUE>>
    ELSE IF stat = "ENOENT" THEN <<"return", TRUE>>
    ELSE <<"throw", stat>>

\* exists(filePath, baseDir), given what fs.stat does on the resolved path:
\* "ok", "ENOENT" or another error code.
exists(stat) ==
    IF stat = "ok" THEN <<"return", TRUE>>
    ELSE IF stat = "ENOENT" THEN <<"return", FALSE>>
    ELSE <<"throw", stat>>

\* spawnPromise: the promise settles on the child's close event
spawnPromise(code) ==
    IF code # 0 THEN <<"reject", code>> ELSE <<"resolve", code>>

\* the command and arguments installDeps builds
installDepsCommand(rootDir, useYarn) ==
    IF useYarn
    THEN [command |-> <<"yarnpkg">>, args |-> << <<"install">>, <<"--cwd">>, rootDir >>]
    ELSE [command |-> <<"npm">>, args |-> << <<"install">> >>]

\* installDeps without process.chdir
installDepsCwd_NoChdir(rootDir, useYarn, cwd) == cwd

\* the working directory installDeps leaves the process in
installDepsCwd(rootDir, useYarn, cwd) == IF useYarn THEN cwd ELSE rootDir

\* the error installDeps throws when spawnPromise rejects with `err`
installDepsError(err) == NewError(<<"installDeps failed", ": ", ToString(err)>>)

\* lines 254-261: what run hands to execa for the command `npm test`; the
\* child's working directory is an option of the child
runCommand(rootDir) ==
    [command |-> <<"npm">>, args |-> << <<"test">> >>, cwd |-> rootDir]

\* the working directory run leaves the process in
runCwd(rootDir, cwd) == cwd

\* lines 265-275: the command and arguments installNpmPackage builds
installNpmPackageCommand(rootDir, useYarn, packageName) ==
    IF useYarn
    THEN [command |-> <<"yarnpkg">>,
          args |-> << <<"--cwd">>, rootDir, <<"add">>, packageName >>]
    ELSE [command |-> <<"npm">>, args |-> << <<"install">>, <<"-D">>, packageName >>]

\* installNpmPackage changing directory for yarn as well
installNpmPackageCwd_AlwaysChdir(rootDir, useYarn, cwd) == rootDir

\* lines 267-274: the working directory installNpmPackage leaves the process in
installNpmPackageCwd(rootDir, useYarn, cwd) == IF useYarn THEN cwd ELSE rootDir

\* lines 276-281: the promise of installNpmPackage settles on the close event;
\* it rejects with a string, kept here as the message of the rejection
installNpmPackagePromise(code, cmd) ==
    IF code # 0
    THEN <<"throw", NewError(<<"installDeps failed", ": ", cmd.command, cmd.args>>)>>
    ELSE <<"return">>

\* the catch clause swallowing every exit code
isNoGit_AnyExitCode(err) == err.exitCode # NoExitCode

\* the test of the catch clause around initGit: err.exitCode == 127
isNoGit(err) == err.exitCode = GitNotFound

\* names of the license.js licenses, then 'UNLICENSED'
AvailableLicenses == << <<"MIT">>, <<"ISC">> >>

\* option names, character by character
K_interactive == <<"i","n","t","e","r","a","c","t","i","v","e">>
K_description == <<"d","e","s","c","r","i","p","t","i","o","n">>
K_author == <<"a","u","t","h","o","r">>
K_email == <<"e","m","a","i","l">>
K_template == <<"t","e","m","p","l","a","t","e">>
K_license == <<"l","i","c","e","n","s","e">>

\* an object with no own properties
EmptyObject == [k \in {} |-> Undefined]

\* the policy with the two branches exchanged
licensePromptPolicy_Exchanged(skipLicense) == IF skipLicense THEN "if-no-arg" ELSE "never"

\* lines 117, 123, 129, 142: skipLicense ? 'never' : 'if-no-arg'
licensePromptPolicy(skipLicense) == IF skipLicense THEN "never" ELSE "if-no-arg"

\* the template is asked for as soon as one template is there
templatePromptPolicy_AnyTemplate(availableTemplates, promptForTemplate) ==
    IF Len(availableTemplates) > 0 /\ promptForTemplate THEN "if-no-arg" ELSE "never"

\* lines 109, 110 and 135
templatePromptPolicy(availableTemplates, promptForTemplate) ==
    LET isMultipleTemplates == Len(availableTemplates) > 1
        askForTemplate == isMultipleTemplates /\ promptForTemplate
    IN  IF askForTemplate THEN "if-no-arg" ELSE "never"

\* getYargsOptions, given the results of the two calls it awaits
getYargsOptions(promptForTemplate, defaultTemplate, skipLicense, extraOptions, gitUser, availableTemplates) ==
    LET yargOption ==
          (K_interactive :> [default |-> TRUE])
          @@ (K_description :>
                [type |-> "input", describe |-> <<"description">>,
                 default |-> <<"description">>,
                 prompt |-> licensePromptPolicy(skipLicense)])
          @@ (K_author :>
                [type |-> "input", describe |-> <<"author name">>,
                 default |-> gitUser.name,
                 prompt |-> licensePromptPolicy(skipLicense)])
          @@ (K_email :>
                [type |-> "input", describe |-> <<"author email">>,
                 default |-> gitUser.email,
                 prompt |-> licensePromptPolicy(skipLicense)])
          @@ (K_template :>
                [type |-> "list", describe |-> <<"template">>,
                 default |-> defaultTemplate,
                 prompt |-> templatePromptPolicy(availableTemplates, promptForTemplate),
                 choices |-> availableTemplates])
          @@ (K_license :>
                [type |-> "list", describe |-> <<"license">>,
                 default |-> Undefined,
                 choices |-> AvailableLicenses \o << <<"UNLICENSED">> >>,
                 prompt |-> licensePromptPolicy(skipLicense)])
    IN  extraOptions @@ yargOption

\* ------------------------------------------------------------------ state
VARIABLES
    pc,                 \* the stage of create that runs next
    options,            \* the options object create was called with
    firstArg,           \* process.argv[2]
    name,
    projectDir,
    readdir,            \* what fs.readdir(projectDir) answered
    availableTemplates, \* the templates under templateRoot
    call,               \* the arguments of the getYargsOptions call
    yargsOption,
    cli,                \* the options given on the command line
    args,               \* the AnswerSet the prompt engine returned
    template,
    templateDir,
    contact,
    templateStat,       \* what fs.stat answered for templateDir
    view,
    copied,             \* how copy ended: "unrun", "ok" or "failed"
    written,            \* names of the files written into projectDir
    manifest,           \* what fs.stat answers for projectDir/package.json
    license,            \* the generated license whose text went into LICENSE
    licenseText,        \* the content of projectDir/LICENSE
    useYarn,
    gitInit,            \* how `git init` ended, once it ran
    cwd,                \* the working directory of the process
    spawned,            \* the commands spawned, in order
    log,                \* the calls and prints made, in order
    result,             \* "pending", "resolved" or "rejected"
    error               \* the value create rejected with

vars == <<pc, options, firstArg, name, projectDir, readdir, availableTemplates,
          call, yargsOption, cli, args, template, templateDir, contact,
          templateStat, view, copied, written, manifest, license, licenseText, useYarn, gitInit, cwd, spawned, log,
          result, error>>

\* --------------------------------------------------------- the environment
\* process.argv[2]: absent, '.', or a project name
FirstArgs == {Undefined, <<".">>, <<"app">>}

\* what a caller's modifyName makes of the first argument
modifyNameResult(arg) == <<"my-app">>

\* the caller's hook: absent, resolving, throwing E, returning the promise of
\* run('npm test'), or returning the promise of installNpmPackage('left-pad')
Afters == {"none", "resolve", "throw", "run", "installNpmPackage"}

\* the error the caller's hook throws
HookE == NewError(<<"boom">>)

\* the caller's caveat: absent, a string, a function, or another type
Caveats == {"none", "string", "function", "number"}

CaveatText == <<"Happy hacking">>

K_port == <<"p","o","r","t">>
K_dollar0 == <<"$","0">>
K_underscore == <<"_">>

\* the keys create itself puts into the view
K_name == <<"n","a","m","e">>
K_year == <<"y","e","a","r">>
K_contact == <<"c","o","n","t","a","c","t">>

\* options.extra: absent, or adding two options, one of them called name, and
\* overriding two base options
Extras ==
    { EmptyObject,
      (K_port :> [type |-> "input", describe |-> <<"port">>,
                  default |-> <<"8080">>, prompt |-> "if-no-arg"])
      @@ (K_name :> [type |-> "input", describe |-> <<"display name">>,
                     default |-> <<"Display">>, prompt |-> "if-no-arg"])
      @@ (K_license :> [type |-> "list", describe |-> <<"license">>,
                        default |-> <<"MIT">>, prompt |-> "if-no-arg",
                        choices |-> << <<"MIT">> >>])
      @@ (K_description :> [type |-> "input", describe |-> <<"about">>,
                            default |-> <<"about">>, prompt |-> "always"]) }

Options ==
    [ modifyName : BOOLEAN,
      defaultPath : {Undefined, <<"/", "base">>},
      templateRoot : {<<"/", "tpl">>},
      templatePrefix : {<<>>},
      promptForTemplate : BOOLEAN,
      defaultTemplate : {<<"default">>},
      skipLicense : BOOLEAN,
      skipGit : BOOLEAN,
      extra : Extras,
      after : Afters,
      caveat : Caveats ]

\* the i-th template under templateRoot
TemplateName(i) ==
    IF i = 1 THEN <<"default">> ELSE IF i = 2 THEN <<"ts">> ELSE <<"t", ToString(i)>>

\* getAvailableTemplates(templateRoot, templatePrefix) with n templates on disk
getAvailableTemplates(n) == [i \in 1..n |-> TemplateName(i)]

\* getGitUser(): the user of the global git configuration, {} when there is
\* none or reading it fails
GitUsers ==
    { [name |-> Undefined, email |-> Undefined],
      [name |-> <<"Ann">>, email |-> <<"ann@example.org">>] }

\* the runs of create are explored on a machine whose git user is configured
ConfiguredGitUsers == { u \in GitUsers : u.name # Undefined }

\* what fs.readdir(projectDir) can answer
Readdirs ==
    { [err |-> "ENOENT", entries |-> 0], [err |-> "ENOTDIR", entries |-> 0] }
    \cup { [err |-> "none", entries |-> n] : n \in 0..MaxDirEntries }

\* the options given on the command line
Clis == { EmptyObject, (K_template :> <<"ts">>) @@ (K_license :> <<"ISC">>) }

\* the prompt engine: a command-line value wins, then an answer typed at a
\* prompt the option's policy allows, then the option's default
promptEngine(schema, argv, typed) ==
    LET answer(k) ==
          IF k \in DOMAIN argv THEN argv[k]
          ELSE IF k = K_interactive THEN TRUE
          ELSE IF typed /\ schema[k].prompt # "never"
               THEN (IF schema[k].type = "list" /\ Len(schema[k].choices) > 0
                     THEN schema[k].choices[1] ELSE <<"typed">>)
          ELSE schema[k].default
    IN  [k \in DOMAIN schema |-> answer(k)]
        @@ (K_dollar0 :> <<"create-app">>) @@ (K_underscore :> <<"app">>)

\* ------------------------------------------------------------------- Init
\* makeLicenseSync has not returned
NoLicense == [header |-> Undefined, text |-> Undefined, warranty |-> Undefined]

\* `git init` has not run
GitNotRun == [ok |-> FALSE, err |-> NoError]

NoCall ==
    [called |-> FALSE, promptForTemplate |-> FALSE, skipLicense |-> FALSE,
     extraOptions |-> EmptyObject]

Init ==
    /\ pc = "NameResolution"
    /\ options \in Options
    /\ firstArg \in FirstArgs
    /\ name = Undefined
    /\ projectDir = Undefined
    /\ readdir = [err |-> "unread", entries |-> 0]
    /\ availableTemplates = <<>>
    /\ call = NoCall
    /\ yargsOption = EmptyObject
    /\ args = EmptyObject
    /\ template = Undefined
    /\ templateDir = Undefined
    /\ contact = Undefined
    /\ view = EmptyObject
    /\ written = {}
    /\ manifest = "ENOENT"
    /\ licenseText = Undefined
    /\ license = NoLicense
    /\ copied = "unrun"
    /\ cli = EmptyObject
    /\ templateStat = "unread"
    /\ useYarn = FALSE
    /\ gitInit = GitNotRun
    /\ cwd = Cwd0
    /\ spawned = <<>>
    /\ log = <<>>
    /\ result = "pending"
    /\ error = NoError

\* groups of variables, for the frame conditions
inputVars == <<options, firstArg>>
nameVars == <<name, projectDir>>
schemaVars == <<availableTemplates, call, yargsOption>>
answerVars == <<cli, args, template, templateDir, contact, templateStat>>
diskVars == <<copied, written, manifest, license, licenseText>>
processVars == <<useYarn, gitInit, cwd, spawned>>

\* ----------------------------------------------------------- control flow
\* the caveat reported before the success confirmation
StageAfter_CaveatFirst(stage) ==
    CASE stage = "NameResolution" -> "DestinationCheck"
      [] stage = "DestinationCheck" -> "SchemaBuild"
      [] stage = "SchemaBuild" -> "Prompting"
      [] stage = "Prompting" -> "TemplateValidation"
      [] stage = "TemplateValidation" -> "Render"
      [] stage = "Render" -> "LicenseGeneration"
      [] stage = "LicenseGeneration" -> "DependencyInstall"
      [] stage = "DependencyInstall" -> "VersionControlInit"
      [] stage = "VersionControlInit" -> "HookExecution"
      [] stage = "HookExecution" -> "CaveatReporting"
      [] stage = "CaveatReporting" -> "Success"
      [] stage = "Success" -> "done"

\* git init moved in front of the dependency install
StageAfter_GitBeforeInstall(stage) ==
    CASE stage = "NameResolution" -> "DestinationCheck"
      [] stage = "DestinationCheck" -> "SchemaBuild"
      [] stage = "SchemaBuild" -> "Prompting"
      [] stage = "Prompting" -> "TemplateValidation"
      [] stage = "TemplateValidation" -> "Render"
      [] stage = "Render" -> "LicenseGeneration"
      [] stage = "LicenseGeneration" -> "VersionControlInit"
      [] stage = "VersionControlInit" -> "DependencyInstall"
      [] stage = "DependencyInstall" -> "HookExecution"
      [] stage = "HookExecution" -> "Success"
      [] stage = "Success" -> "CaveatReporting"
      [] stage = "CaveatReporting" -> "done"

\* the order of the statements of create
StageAfter(stage) ==
    CASE stage = "NameResolution" -> "DestinationCheck"
      [] stage = "DestinationCheck" -> "SchemaBuild"
      [] stage = "SchemaBuild" -> "Prompting"
      [] stage = "Prompting" -> "TemplateValidation"
      [] stage = "TemplateValidation" -> "Render"
      [] stage = "Render" -> "LicenseGeneration"
      [] stage = "LicenseGeneration" -> "DependencyInstall"
      [] stage = "DependencyInstall" -> "VersionControlInit"
      [] stage = "VersionControlInit" -> "HookExecution"
      [] stage = "HookExecution" -> "Success"
      [] stage = "Success" -> "CaveatReporting"
      [] stage = "CaveatReporting" -> "done"

\* create returns
Resolve ==
    /\ pc' = "done"
    /\ result' = "resolved"
    /\ error' = error

\* create throws e
Reject(e) ==
    /\ pc' = "done"
    /\ result' = "rejected"
    /\ error' = e

\* the stage is over and create goes on with the statements after it
Continue(stage) ==
    IF StageAfter(stage) = "done"
    THEN Resolve
    ELSE /\ pc' = StageAfter(stage)
         /\ UNCHANGED <<result, error>>

\* ------------------------------------------------------------- the stages
\* the test firstArg === null, which an absent argument does not pass
isUsage_Null(arg) == arg = <<"#null">>

\* line 151: typeof firstArg === 'undefined'
isUsage(arg) == arg = Undefined

\* line 155
useCurrentDir(arg) == arg = <<".">>

\* lines 156-160: modifyName is called when the name is not the directory's
callsModifyName(arg, opts) == ~useCurrentDir(arg) /\ opts.modifyName

nameOf(arg, opts, dir) ==
    IF useCurrentDir(arg) THEN Basename(dir)
    ELSE IF opts.modifyName THEN modifyNameResult(arg)
    ELSE arg

\* defaultPath looked at before useCurrentDir
projectDirOf_DefaultPathFirst(arg, opts, n, dir) ==
    IF Truthy(opts.defaultPath) THEN PathResolve(dir, opts.defaultPath \o n)
    ELSE IF useCurrentDir(arg) THEN dir
    ELSE PathResolve(dir, n)

\* lines 161-165
projectDirOf(arg, opts, n, dir) ==
    IF useCurrentDir(arg) THEN dir
    ELSE IF Truthy(opts.defaultPath) THEN PathResolve(dir, opts.defaultPath \o n)
    ELSE PathResolve(dir, n)

\* lines 150-167: usage, name and projectDir
NameResolution ==
    /\ pc = "NameResolution"
    /\ IF isUsage(firstArg)
       THEN /\ log' = Append(log, "usage")
            /\ Resolve
            /\ UNCHANGED nameVars
       ELSE LET n == nameOf(firstArg, options, cwd)
            IN  /\ name' = n
                /\ projectDir' = projectDirOf(firstArg, options, n, cwd)
                /\ log' = log \o (IF callsModifyName(firstArg, options)
                                  THEN <<"modifyName">> ELSE <<>>)
                               \o <<"newProjectMsg">>
                /\ Continue("NameResolution")
    /\ UNCHANGED <<inputVars, readdir, schemaVars, answerVars, view, diskVars,
                   processVars>>

\* lines 169-171
DestinationCheck ==
    /\ pc = "DestinationCheck"
    /\ \E r \in Readdirs :
        /\ (projectDir = cwd => r.err = "none")
        /\ readdir' = r
        /\ log' = Append(log, "isEmptyDir")
        /\ LET e == isEmptyDir(r)
           IN  IF e[1] = "throw" THEN Reject(NewError(<<e[2]>>))
               ELSE IF ~e[2] THEN Reject(NewError(projectDir \o <<" is not empty.">>))
               ELSE Continue("DestinationCheck")
    /\ UNCHANGED <<inputVars, nameVars, schemaVars, answerVars, view, diskVars,
                   processVars>>

\* the caller's skipLicense handed on to getYargsOptions
skipLicensePrompts_FromOptions(opts) == opts.skipLicense

\* line 179: the fifth argument of the getYargsOptions call is the literal true
skipLicensePrompts(opts) == TRUE

\* lines 173-181
SchemaBuild ==
    /\ pc = "SchemaBuild"
    /\ \E gitUser \in ConfiguredGitUsers, n \in 0..MaxTemplates :
        /\ availableTemplates' = getAvailableTemplates(n)
        /\ call' = [called |-> TRUE, promptForTemplate |-> options.promptForTemplate,
                    skipLicense |-> skipLicensePrompts(options),
                    extraOptions |-> options.extra]
        /\ yargsOption' = getYargsOptions(options.promptForTemplate,
                                          options.defaultTemplate,
                                          skipLicensePrompts(options), options.extra,
                                          gitUser, getAvailableTemplates(n))
    /\ log' = Append(log, "getYargsOptions")
    /\ Continue("SchemaBuild")
    /\ UNCHANGED <<inputVars, nameVars, readdir, answerVars, view, diskVars,
                   processVars>>

\* lines 182-184
Prompting ==
    /\ pc = "Prompting"
    /\ \E c \in Clis, typed \in BOOLEAN :
        /\ cli' = c
        /\ args' = promptEngine(yargsOption, c, typed)
    /\ log' = Append(log, "yargsInteractive")
    /\ Continue("Prompting")
    /\ UNCHANGED <<inputVars, nameVars, readdir, schemaVars, template, templateDir,
                   contact, templateStat, view, diskVars, processVars>>

\* what fs.stat answers for the chosen template directory: it is there when
\* the template is one of those on disk, and stat can fail for another reason
TemplateStats(t) ==
    { IF \E i \in 1..Len(availableTemplates) : availableTemplates[i] = t
      THEN "ok" ELSE "ENOENT",
      "EACCES" }

\* lines 186-193
TemplateValidation ==
    /\ pc = "TemplateValidation"
    /\ template' = args[K_template]
    /\ templateDir' = PathResolve(options.templateRoot,
                                  options.templatePrefix \o args[K_template])
    /\ contact' = getContact(args[K_author], args[K_email])
    /\ log' = Append(log, "existsTemplate")
    /\ \E stat \in TemplateStats(args[K_template]) :
        /\ templateStat' = stat
        /\ LET e == exists(stat)
           IN  IF e[1] = "throw" THEN Reject(NewError(<<e[2]>>))
               ELSE IF ~e[2] THEN Reject(NewError(<<"No template found">>))
               ELSE Continue("TemplateValidation")
    /\ UNCHANGED <<inputVars, nameVars, readdir, schemaVars, cli, args, view, diskVars,
                   processVars>>

\* the pattern /^[^$]/: names that start with an underscore pass
matchesPlainStart_DollarOnly(k) == Len(k) > 0 /\ k[1] # "$"

\* /^[^$_]/ on an option name
matchesPlainStart(k) == Len(k) > 0 /\ k[1] \notin {"$", "_"}

\* lines 195-203: the answers that go into the view
filteredArgsOf(a) ==
    LET keep == { k \in DOMAIN a :
                    matchesPlainStart(k) /\ k \notin {K_interactive, K_template} }
    IN  [k \in keep |-> a[k]]

\* new Date().getFullYear()
Year == <<"2026">>

\* lines 205-210
viewOf(a, n, c) ==
    (K_name :> n) @@ (K_year :> Year) @@ (K_contact :> c) @@ filteredArgsOf(a)

\* what fs.stat will answer for package.json in the rendered project: the
\* template has a manifest, has none, or has one that cannot be followed
Manifests == {"ok", "ENOENT", "ELOOP"}

\* the error copy rejects with
CopyE == NewError(<<"copy failed">>)

\* a rejection of copy caught and dropped
awaitCopy_Swallow(e) == <<"continue">>

\* line 214: `await copy(...)` outside any try block
awaitCopy(e) == <<"reject", e>>

\* lines 195-218: copy renders the template tree into projectDir or fails
Render ==
    /\ pc = "Render"
    /\ view' = viewOf(args, name, contact)
    /\ log' = log \o <<"creatingMsg", "copy">>
    /\ \/ \E m \in Manifests :
            /\ copied' = "ok"
            /\ manifest' = m
            /\ written' = {"README.md"} \cup (IF m = "ENOENT" THEN {} ELSE {"package.json"})
            /\ Continue("Render")
       \/ /\ copied' = "failed"
          /\ UNCHANGED <<written, manifest>>
          /\ LET a == awaitCopy(CopyE)
             IN  IF a[1] = "reject" THEN Reject(a[2]) ELSE Continue("Render")
    /\ UNCHANGED <<inputVars, nameVars, readdir, schemaVars, answerVars, license, licenseText,
                   processVars>>

\* what makeLicenseSync can return: header and warranty are optional
Licenses ==
    [header : {Undefined, <<"H">>}, text : {<<"T">>}, warranty : {Undefined, <<"W">>}]
    \cup {[header |-> <<"H">>, text |-> Undefined, warranty |-> <<"W">>]}

\* line 229
licenseTextOf(l) ==
    (IF Truthy(l.header) THEN l.header ELSE <<>>)
    \o Tmpl(l.text)
    \o (IF Truthy(l.warranty) THEN l.warranty ELSE <<>>)

\* the catch clause throwing the error again
licenseCatch_Rethrow(e) == <<"reject", e>>

\* lines 231-233: what create does with an error thrown inside the try block
licenseCatch(e) == <<"continue">>

\* lines 220-234
LicenseGeneration ==
    /\ pc = "LicenseGeneration"
    /\ IF options.skipLicense
       THEN /\ UNCHANGED <<written, license, licenseText, log>>
            /\ Continue("LicenseGeneration")
       ELSE \/ \* makeLicenseSync throws
               /\ log' = Append(log, "makeLicenseSync")
               /\ UNCHANGED <<written, license, licenseText>>
               /\ LET c == licenseCatch(NewError(<<"unknown license">>))
                  IN  IF c[1] = "continue" THEN Continue("LicenseGeneration")
                      ELSE Reject(c[2])
            \/ \* fs.writeFile fails
               /\ log' = log \o <<"makeLicenseSync", "writeLicense">>
               /\ UNCHANGED <<written, license, licenseText>>
               /\ LET c == licenseCatch(NewError(<<"EACCES">>))
                  IN  IF c[1] = "continue" THEN Continue("LicenseGeneration")
                      ELSE Reject(c[2])
            \/ \E l \in Licenses :
               /\ log' = log \o <<"makeLicenseSync", "writeLicense">>
               /\ license' = l
               /\ licenseText' = licenseTextOf(l)
               /\ written' = written \cup {"LICENSE"}
               /\ Continue("LicenseGeneration")
    /\ UNCHANGED <<inputVars, nameVars, readdir, schemaVars, answerVars, view,
                   copied, manifest, processVars>>

\* the exit codes of the install command
ExitCodes == {0, 1}

\* lines 236-241, with installDeps
DependencyInstall ==
    /\ pc = "DependencyInstall"
    /\ \E yarn \in BOOLEAN :
        /\ useYarn' = yarn
        /\ LET e == exists(manifest)
           IN  IF e[1] = "throw"
               THEN /\ log' = log \o <<"IsYarnAvailable", "existsManifest">>
                    /\ Reject(NewError(<<e[2]>>))
                    /\ UNCHANGED <<cwd, spawned>>
               ELSE IF ~e[2]
               THEN /\ log' = log \o <<"IsYarnAvailable", "existsManifest">>
                    /\ Continue("DependencyInstall")
                    /\ UNCHANGED <<cwd, spawned>>
               ELSE /\ log' = log \o <<"IsYarnAvailable", "existsManifest",
                                       "installingMsg", "installDeps">>
                    /\ cwd' = installDepsCwd(projectDir, yarn, cwd)
                    /\ spawned' = Append(spawned, installDepsCommand(projectDir, yarn))
                    /\ \E code \in ExitCodes :
                        LET p == spawnPromise(code)
                        IN  IF p[1] = "reject" THEN Reject(installDepsError(p[2]))
                            ELSE Continue("DependencyInstall")
    /\ UNCHANGED <<inputVars, nameVars, readdir, schemaVars, answerVars, view,
                   diskVars, gitInit>>

\* how `git init` can end: with exit code 0, or with the error execa rejects with
GitInits ==
    { [ok |-> TRUE, err |-> NoError],
      [ok |-> FALSE, err |-> ExecaError(<<"git init">>, GitNotFound)],
      [ok |-> FALSE, err |-> ExecaError(<<"git init">>, 1)],
      [ok |-> FALSE, err |-> NewError(<<"spawn EACCES">>)] }

\* lines 243-252
VersionControlInit ==
    /\ pc = "VersionControlInit"
    /\ IF options.skipGit
       THEN /\ UNCHANGED <<log, gitInit>>
            /\ Continue("VersionControlInit")
       ELSE \E g \in GitInits :
              /\ gitInit' = g
              /\ IF g.ok
                 THEN /\ log' = log \o <<"initGit", "gitMsg">>
                      /\ Continue("VersionControlInit")
                 ELSE /\ log' = Append(log, "initGit")
                      /\ IF isNoGit(g.err) THEN Resolve ELSE Reject(g.err)
    /\ UNCHANGED <<inputVars, nameVars, readdir, schemaVars, answerVars, view,
                   diskVars, useYarn, cwd, spawned>>

\* what the caller's hook does when called
afterOutcome(after) == IF after = "throw" THEN <<"throw", HookE>> ELSE <<"return">>

\* the hook called inside a try block that swallows
awaitAfter_Swallow(outcome) == <<"continue">>

\* line 301: the hook's promise is awaited outside any try block
awaitAfter(outcome) ==
    IF outcome[1] = "throw" THEN <<"reject", outcome[2]>> ELSE <<"continue">>

\* lines 299-302
HookExecution ==
    /\ pc = "HookExecution"
    /\ IF options.after = "none"
       THEN /\ log' = log
            /\ Continue("HookExecution")
            /\ UNCHANGED <<cwd, spawned>>
       ELSE IF options.after = "run"
       THEN /\ log' = log \o <<"after", "run">>
            /\ spawned' = Append(spawned, runCommand(projectDir))
            /\ cwd' = runCwd(projectDir, cwd)
            /\ LET a == awaitAfter(<<"return">>)
               IN  IF a[1] = "reject" THEN Reject(a[2]) ELSE Continue("HookExecution")
       ELSE IF options.after = "installNpmPackage"
       THEN LET cmd == installNpmPackageCommand(projectDir, useYarn, <<"left-pad">>)
            IN  /\ log' = log \o <<"after", "installNpmPackage">>
                /\ spawned' = Append(spawned, cmd)
                /\ cwd' = installNpmPackageCwd(projectDir, useYarn, cwd)
                /\ \E code \in ExitCodes :
                    LET a == awaitAfter(installNpmPackagePromise(code, cmd))
                    IN  IF a[1] = "reject" THEN Reject(a[2])
                        ELSE Continue("HookExecution")
       ELSE /\ log' = Append(log, "after")
            /\ UNCHANGED <<cwd, spawned>>
            /\ LET a == awaitAfter(afterOutcome(options.after))
               IN  IF a[1] = "reject" THEN Reject(a[2]) ELSE Continue("HookExecution")
    /\ UNCHANGED <<inputVars, nameVars, readdir, schemaVars, answerVars, view,
                   diskVars, useYarn, gitInit>>

\* line 304
Success ==
    /\ pc = "Success"
    /\ log' = Append(log, "successMsg")
    /\ Continue("Success")
    /\ UNCHANGED <<inputVars, nameVars, readdir, schemaVars, answerVars, view,
                   diskVars, processVars>>

\* what a caveat function can do: return a text, return nothing, or throw
CaveatResponses == {"text", "nothing", "throw"}

\* the error a caveat function throws
CaveatE == NewError(<<"caveat failed">>)

\* lines 306-321
CaveatReporting ==
    /\ pc = "CaveatReporting"
    /\ IF options.caveat = "string"
       THEN /\ log' = Append(log, "caveatMsg")
            /\ Continue("CaveatReporting")
       ELSE IF options.caveat = "function"
       THEN \E response \in CaveatResponses :
              IF response = "throw"
              THEN /\ log' = Append(log, "caveatFn")
                   /\ Reject(CaveatE)
              ELSE /\ log' = IF response = "text"
                             THEN log \o <<"caveatFn", "caveatMsg">>
                             ELSE Append(log, "caveatFn")
                   /\ Continue("CaveatReporting")
       ELSE /\ log' = log
            /\ Continue("CaveatReporting")
    /\ UNCHANGED <<inputVars, nameVars, readdir, schemaVars, answerVars, view,
                   diskVars, processVars>>

Next ==
    \/ NameResolution
    \/ DestinationCheck
    \/ SchemaBuild
    \/ Prompting
    \/ TemplateValidation
    \/ Render
    \/ LicenseGeneration
    \/ DependencyInstall
    \/ VersionControlInit
    \/ HookExecution
    \/ Success
    \/ CaveatReporting

Spec == Init /\ [][Next]_vars

\* ------------------------------------------- the Configuration Assembler
\* extraOptions of a getYargsOptions call: those of Extras, and objects that
\* add or override one option
AssemblerExtras ==
    Extras \cup
    { K_port :> [type |-> "input", describe |-> <<"port">>,
                 default |-> <<"8080">>, prompt |-> "if-no-arg"],
      K_description :> [type |-> "input", describe |-> <<"about">>,
                        default |-> <<"about">>, prompt |-> "always"],
      K_license :> [type |-> "list", describe |-> <<"license">>,
                    default |-> <<"ISC">>, prompt |-> "never",
                    choices |-> << <<"ISC">> >>],
      K_author :> [type |-> "input", describe |-> <<"maintainer">>,
                   default |-> <<"nobody">>, prompt |-> "if-no-arg"],
      K_template :> [type |-> "list", describe |-> <<"flavour">>,
                     default |-> <<"ts">>, prompt |-> "always",
                     choices |-> << <<"ts">> >>] }

AssemblerCalls ==
    [called : {FALSE}, promptForTemplate : BOOLEAN, skipLicense : BOOLEAN,
     extraOptions : AssemblerExtras]

\* the options of a caller that sets none but templateRoot
DefaultOptions ==
    [modifyName |-> FALSE, defaultPath |-> Undefined, templateRoot |-> <<"/", "tpl">>,
     templatePrefix |-> <<>>, promptForTemplate |-> FALSE,
     defaultTemplate |-> <<"default">>, skipLicense |-> FALSE, skipGit |-> FALSE,
     extra |-> EmptyObject, after |-> "none", caveat |-> "none"]

\* a call of getYargsOptions on its own, with any arguments
InitAssembler ==
    /\ pc = "getYargsOptions"
    /\ call \in AssemblerCalls
    /\ options = DefaultOptions
    /\ firstArg = <<"app">>
    /\ name = Undefined
    /\ projectDir = Undefined
    /\ readdir = [err |-> "unread", entries |-> 0]
    /\ availableTemplates = <<>>
    /\ yargsOption = EmptyObject
    /\ args = EmptyObject
    /\ template = Undefined
    /\ templateDir = Undefined
    /\ contact = Undefined
    /\ view = EmptyObject
    /\ written = {}
    /\ manifest = "ENOENT"
    /\ licenseText = Undefined
    /\ license = NoLicense
    /\ copied = "unrun"
    /\ cli = EmptyObject
    /\ templateStat = "unread"
    /\ useYarn = FALSE
    /\ gitInit = GitNotRun
    /\ cwd = Cwd0
    /\ spawned = <<>>
    /\ log = <<>>
    /\ result = "pending"
    /\ error = NoError

\* lines 99-147
Assemble ==
    /\ pc = "getYargsOptions"
    /\ \E gitUser \in GitUsers, n \in 0..MaxTemplates :
        /\ availableTemplates' = getAvailableTemplates(n)
        /\ yargsOption' = getYargsOptions(call.promptForTemplate,
                                          options.defaultTemplate, call.skipLicense,
                                          call.extraOptions, gitUser,
                                          getAvailableTemplates(n))
    /\ call' = [call EXCEPT !.called = TRUE]
    /\ log' = Append(log, "getYargsOptions")
    /\ pc' = "returned"
    /\ UNCHANGED <<inputVars, nameVars, readdir, answerVars, view, diskVars,
                   processVars, result, error>>

NextAssembler == Assemble

SpecAssembler == InitAssembler /\ [][NextAssembler]_vars

\* ================================================================ claims
InLog(e) == \E i \in 1..Len(log) : log[i] = e

LastLog == IF Len(log) = 0 THEN "" ELSE log[Len(log)]

\* `part` occurs in `whole` as a run of consecutive atoms
IsInfix(part, whole) ==
    \E i \in 0..(Len(whole) - Len(part)) :
        \A j \in 1..Len(part) : whole[i + j] = part[j]

\* the stages that write: render, LICENSE write, install, git init, hook
WritingEvents == {"copy", "makeLicenseSync", "writeLicense", "installDeps", "initGit", "after"}

\* fs.readdir found entries in projectDir
DestinationNonEmpty == readdir.err = "none" /\ readdir.entries > 0

\* C1: whenever projectDir exists and is non-empty, create has rejected with
\* the '<projectDir> is not empty.' error and no writing stage has run:
\* nothing rendered, no LICENSE, nothing spawned, no git init, no hook.
C1_NonEmptyDestinationRejected ==
    DestinationNonEmpty =>
        /\ pc = "done"
        /\ result = "rejected"
        /\ error = NewError(projectDir \o <<" is not empty.">>)
        /\ \A e \in WritingEvents : ~InLog(e)
        /\ written = {}
        /\ licenseText = Undefined
        /\ spawned = <<>>
        /\ gitInit = GitNotRun

C1_Witness ==
    /\ DestinationNonEmpty
    /\ result = "rejected"
    /\ LastLog = "isEmptyDir"

\* git init ran and failed with the 'tool not found' status
GitNotFoundFailure == gitInit # GitNotRun /\ ~gitInit.ok /\ gitInit.err.exitCode = 127

\* C2: when skipGit is false and git init fails with exit code 127, the run
\* ends as one where init succeeded: the caller's hook, if supplied, has been
\* executed and, unless the hook threw, the success confirmation printed.
C2_NoGitStillReachesSuccess ==
    (GitNotFoundFailure /\ pc = "done") =>
        /\ options.after # "none" => InLog("after")
        /\ options.after # "throw" => InLog("successMsg")

\* C3: a git init failure with exit code 127 never makes create reject; a
\* failure with another exit code, or with an error that has none, makes
\* create reject with that very error.
C3_GitInitFailure ==
    (gitInit # GitNotRun /\ ~gitInit.ok) =>
        /\ ~options.skipGit
        /\ IF gitInit.err.exitCode = 127
           THEN result # "rejected"
           ELSE result = "rejected" /\ error = gitInit.err

C3_Witness ==
    /\ gitInit # GitNotRun
    /\ ~gitInit.ok
    /\ gitInit.err.exitCode = 1
    /\ result = "rejected"

\* C4: once the caller's hook has thrown E, create has rejected with that same
\* E and neither the success confirmation nor the caveat is ever printed, nor
\* the caveat function called.
C4_HookErrorPropagates ==
    (InLog("after") /\ options.after = "throw") =>
        /\ pc = "done"
        /\ result = "rejected"
        /\ error = HookE
        /\ ~InLog("successMsg")
        /\ ~InLog("caveatMsg")
        /\ ~InLog("caveatFn")

C4_Witness ==
    /\ InLog("after")
    /\ options.after = "throw"
    /\ options.caveat = "string"
    /\ result = "rejected"

\* the license stage ran and wrote no LICENSE: the generator threw, or the
\* write failed
LicenseFailed ==
    /\ ~options.skipLicense
    /\ InLog("makeLicenseSync")
    /\ "LICENSE" \notin written

\* C5: after a failed license stage create has not rejected because of it:
\* it is about to probe for yarn with nothing rejected, or it has gone on to
\* the dependency-install stage and beyond.
C5_LicenseFailureSwallowed ==
    LicenseFailed =>
        \/ pc = "DependencyInstall" /\ result = "pending" /\ error = NoError
        \/ InLog("IsYarnAvailable")

C5_Witness ==
    /\ LicenseFailed
    /\ ~InLog("writeLicense")
    /\ InLog("successMsg")
    /\ result = "resolved"

CaveatEvents == {"caveatMsg", "caveatFn"}

CaveatSupplied == options.caveat \in {"string", "function"}

\* C6 as stated: in a run with a caveat, when the success confirmation is
\* printed the caveat has been reported before it, and the confirmation is the
\* last thing done.
C6_CaveatBeforeSuccess ==
    (CaveatSupplied /\ InLog("successMsg")) =>
        /\ \E i, j \in 1..Len(log) :
            log[i] \in CaveatEvents /\ log[j] = "successMsg" /\ i < j
        /\ LastLog = "successMsg"

\* C6, amended: the success confirmation comes before caveat reporting, and
\* nothing but caveat reporting follows it; a run with a caveat that resolves
\* after the confirmation has reported the caveat.
C6_SuccessBeforeCaveat ==
    /\ \A i \in 1..Len(log) :
        log[i] = "successMsg" => \A j \in (i + 1)..Len(log) : log[j] \in CaveatEvents
    /\ \A j \in 1..Len(log) :
        log[j] \in CaveatEvents => \A i \in j..Len(log) : log[i] # "successMsg"
    /\ (pc = "done" /\ result = "resolved" /\ InLog("successMsg")) =>
        /\ options.caveat = "string" => LastLog = "caveatMsg"
        /\ options.caveat = "function" => InLog("caveatFn")

C6_Witness ==
    /\ options.caveat = "string"
    /\ pc = "done"
    /\ result = "resolved"
    /\ Len(log) >= 2
    /\ log[Len(log) - 1] = "successMsg"
    /\ log[Len(log)] = "caveatMsg"

\* C7: every step in which installDeps runs spawns one command; with npm the
\* arguments hold no --cwd and the working directory is projectDir afterwards,
\* with yarn projectDir follows --cwd and the working directory is what it was.
C7_InstallDepsWorkingDirectory ==
    [][ (pc = "DependencyInstall" /\ spawned' # spawned) =>
          /\ Len(spawned') = Len(spawned) + 1
          /\ LET c == spawned'[Len(spawned')]
             IN  IF useYarn'
                 THEN /\ c.command = <<"yarnpkg">>
                      /\ \E i \in 1..(Len(c.args) - 1) :
                            c.args[i] = <<"--cwd">> /\ c.args[i + 1] = projectDir
                      /\ cwd' = cwd
                 ELSE /\ c.command = <<"npm">>
                      /\ \A i \in 1..Len(c.args) : c.args[i] # <<"--cwd">>
                      /\ cwd' = projectDir ]_vars

C7_Witness ==
    /\ LastLog = "installDeps"
    /\ ~useYarn
    /\ Len(spawned) = 1
    /\ cwd = projectDir
    /\ cwd # Cwd0

\* the install command exited with a non-zero code
InstallFailed == result = "rejected" /\ LastLog = "installDeps"

\* C8: when the install command exits non-zero create rejects with an error
\* whose message starts with 'installDeps failed' and holds the program and
\* every argument of the command, and no later stage runs.
C8_InstallErrorNamesCommand ==
    InstallFailed =>
        LET c == spawned[Len(spawned)]
        IN  /\ error.message[1] = "installDeps failed"
            /\ IsInfix(c.command, error.message)
            /\ \A i \in 1..Len(c.args) : IsInfix(c.args[i], error.message)
            /\ ~InLog("initGit")
            /\ ~InLog("after")
            /\ ~InLog("successMsg")

\* C9: the dependency-install stage spawns the install command exactly when
\* fs.stat finds package.json in projectDir; when there is none the stage
\* spawns nothing, leaves the working directory alone and create goes on.
C9_InstallIffManifest ==
    [][ pc = "DependencyInstall" =>
          /\ (spawned' # spawned) <=> (manifest = "ok")
          /\ InLog("installDeps")' <=> (manifest = "ok")
          /\ manifest = "ENOENT" =>
                /\ cwd' = cwd
                /\ pc' = "VersionControlInit"
                /\ result' = "pending" ]_vars

C9_Witness ==
    /\ InLog("existsManifest")
    /\ manifest = "ENOENT"
    /\ spawned = <<>>
    /\ cwd = Cwd0
    /\ pc = "VersionControlInit"

LicenseOptionNames == {K_description, K_author, K_email, K_license}

\* C10 as stated: after a call with skipLicense = true each of description,
\* author, email and license has prompt policy 'never', whatever extraOptions.
C10_NeverPromptedWhateverExtra ==
    (call.called /\ call.skipLicense) =>
        \A k \in LicenseOptionNames : yargsOption[k].prompt = "never"

\* C10, amended: after a call with skipLicense = true each of description,
\* author, email and license that extraOptions does not define has prompt
\* policy 'never'; one that extraOptions defines is the entry extraOptions gives.
C10_NeverPromptedUnlessOverridden ==
    (call.called /\ call.skipLicense) =>
        \A k \in LicenseOptionNames :
            IF k \in DOMAIN call.extraOptions
            THEN yargsOption[k] = call.extraOptions[k]
            ELSE yargsOption[k].prompt = "never"

C10_Witness ==
    /\ call.called
    /\ call.skipLicense
    /\ K_description \in DOMAIN call.extraOptions
    /\ K_author \notin DOMAIN call.extraOptions
    /\ yargsOption[K_description].prompt = "always"
    /\ yargsOption[K_author].prompt = "never"

\* -------------------------------------------------------------- C11
\* C11 as stated: in the schema getYargsOptions returns, the template option
\* has prompt policy 'if-no-arg' exactly when more than one template is
\* available and promptForTemplate is true, and 'never' otherwise.  An
\* extraOptions that defines template replaces the entry, policy included.
C11_TemplatePromptWhateverExtra ==
    call.called =>
        yargsOption[K_template].prompt =
            IF Len(availableTemplates) > 1 /\ call.promptForTemplate
            THEN "if-no-arg" ELSE "never"

\* C11: when extraOptions defines no template option, the template option of
\* the schema getYargsOptions returns has prompt policy 'if-no-arg' exactly
\* when more than one template is available and promptForTemplate is true,
\* and 'never' in every other case (one or no template, or promptForTemplate
\* false).
C11_TemplatePromptPolicy ==
    (call.called /\ K_template \notin DOMAIN call.extraOptions) =>
        /\ yargsOption[K_template].prompt \in {"if-no-arg", "never"}
        /\ yargsOption[K_template].prompt = "if-no-arg"
             <=> (Len(availableTemplates) > 1 /\ call.promptForTemplate)
        /\ Len(availableTemplates) <= 1 => yargsOption[K_template].prompt = "never"

\* one template on disk and promptForTemplate set: the policy is 'never'
C11_Witness ==
    /\ call.called
    /\ K_template \notin DOMAIN call.extraOptions
    /\ call.promptForTemplate
    /\ Len(availableTemplates) = 1
    /\ yargsOption[K_template].prompt = "never"

\* -------------------------------------------------------------- C12
\* the keys of the AnswerSet that the projection is to carry over: not
\* interactive, not template, not starting with $ or _
CarriedKeys ==
    { k \in DOMAIN args :
        /\ k \notin {K_interactive, K_template}
        /\ Len(k) > 0
        /\ k[1] # "$" /\ k[1] # "_" }

\* the view has been built
ViewBuilt == InLog("copy")

\* the view has none of the excluded keys
ViewExcludes ==
    /\ K_interactive \notin DOMAIN view
    /\ K_template \notin DOMAIN view
    /\ \A k \in DOMAIN view : Len(k) > 0 => (k[1] # "$" /\ k[1] # "_")

\* C12 as stated: the view has no key interactive or template and no key
\* starting with $ or _, and every other key of the AnswerSet is in the view
\* with the value the AnswerSet holds for it.  An answer called name, year or
\* contact is replaced by the value create computes.
C12_EveryOtherKeyVerbatim ==
    ViewBuilt =>
        /\ ViewExcludes
        /\ \A k \in CarriedKeys : k \in DOMAIN view /\ view[k] = args[k]

\* C12: the view has no key interactive or template and no key starting with
\* $ or _; every other key of the AnswerSet except name, year and contact is
\* in the view with the value the AnswerSet holds for it; name, year and
\* contact are in the view with the project name, the current year and the
\* contact string, whatever the AnswerSet holds for them.
C12_AnswerProjection ==
    ViewBuilt =>
        /\ ViewExcludes
        /\ \A k \in CarriedKeys \ {K_name, K_year, K_contact} :
                k \in DOMAIN view /\ view[k] = args[k]
        /\ {K_name, K_year, K_contact} \subseteq DOMAIN view
        /\ view[K_name] = name
        /\ view[K_year] = Year
        /\ view[K_contact] = contact

\* the AnswerSet has $0, _, an added option port and an answer called name
\* that differs from the project name
C12_Witness ==
    /\ ViewBuilt
    /\ {K_dollar0, K_underscore, K_port, K_name, K_interactive, K_template}
          \subseteq DOMAIN args
    /\ args[K_name] # name
    /\ view[K_port] = args[K_port]
    /\ view[K_name] = name

\* -------------------------------------------------------------- C13
\* a section of a license as the claim reads it: nothing when absent
SectionOrEmpty(section) == IF section = Undefined THEN <<>> ELSE section

\* C13: the text written to LICENSE is header, body and warranty of the
\* generated license in that order, each absent section contributing the
\* empty string.  A license without body is written with the word undefined
\* in the body's place.
C13_LicenseTextIsConcatenation ==
    "LICENSE" \in written =>
        licenseText = SectionOrEmpty(license.header) \o SectionOrEmpty(license.text)
                      \o SectionOrEmpty(license.warranty)

\* -------------------------------------------------------------- C14
\* the first argument is '.' and the name has been resolved
CurrentDirChosen == firstArg = <<".">> /\ pc # "NameResolution"

\* C14: when the first argument is '.', name is the base name of the working
\* directory and projectDir is the working directory, whatever modifyName and
\* defaultPath are, and modifyName is not called; when that directory is empty
\* the destination check passes and create goes on to build the schema.
C14_CurrentDirectoryProject ==
    CurrentDirChosen =>
        /\ name = <<"demo">>
        /\ projectDir = Cwd0
        /\ ~InLog("modifyName")
        /\ (readdir = [err |-> "none", entries |-> 0]) =>
              /\ InLog("getYargsOptions") \/ pc = "SchemaBuild"
              /\ ~(result = "rejected" /\ LastLog = "isEmptyDir")

\* '.' with modifyName and defaultPath both set, in an empty directory, and
\* create has gone on past the destination check
C14_Witness ==
    /\ CurrentDirChosen
    /\ options.modifyName
    /\ options.defaultPath = <<"/", "base">>
    /\ readdir = [err |-> "none", entries |-> 0]
    /\ name = <<"demo">>
    /\ projectDir = Cwd0
    /\ InLog("yargsInteractive")

\* -------------------------------------------------------------- C15
\* no first argument was given and create has started
NoFirstArg == firstArg = Undefined /\ pc # "NameResolution"

\* C15: without a first argument create prints the usage line and resolves,
\* and nothing else happens: no destination check, no schema, no prompt, no
\* render, no license, no install, no git init, no hook, no caveat and no
\* success message.
C15_UsageOnly ==
    NoFirstArg =>
        /\ pc = "done"
        /\ result = "resolved"
        /\ error = NoError
        /\ log = <<"usage">>
        /\ readdir.err = "unread"
        /\ ~call.called
        /\ args = EmptyObject
        /\ copied = "unrun"
        /\ written = {}
        /\ licenseText = Undefined
        /\ spawned = <<>>
        /\ gitInit = GitNotRun
        /\ cwd = Cwd0

\* create has resolved after printing the usage line, with an after hook and
\* a caveat configured
C15_Witness ==
    /\ NoFirstArg
    /\ result = "resolved"
    /\ log = <<"usage">>
    /\ options.after = "throw"
    /\ options.caveat = "string"

\* -------------------------------------------------------------- C19
\* the package manager has been probed and yarn was found
YarnDetected == InLog("IsYarnAvailable") /\ useYarn

\* the package manager has been probed and yarn was not found
NpmDetected == InLog("IsYarnAvailable") /\ ~useYarn

\* C19: the working directory of the process differs from the one create
\* started in only after installDeps or installNpmPackage ran with npm, and
\* then it is projectDir; with yarn, and with npm when the rendered project
\* has no manifest and the hook does not call installNpmPackage, it is the
\* directory create started in; a hook that calls run leaves it as it was.
C19_WorkingDirectoryFrame ==
    /\ cwd # Cwd0 =>
        /\ NpmDetected
        /\ InLog("installDeps") \/ InLog("installNpmPackage")
        /\ cwd = projectDir
    /\ YarnDetected => cwd = Cwd0
    /\ (NpmDetected /\ manifest = "ENOENT" /\ options.after # "installNpmPackage")
         => cwd = Cwd0
    /\ (InLog("run") /\ ~InLog("installDeps")) => cwd = Cwd0

\* npm, a project directory other than the working directory, no manifest,
\* and a hook that called run: create has resolved in the directory it
\* started in
C19_Witness ==
    /\ NpmDetected
    /\ projectDir # Cwd0
    /\ manifest = "ENOENT"
    /\ InLog("run")
    /\ Len(spawned) = 1
    /\ spawned[1].cwd = projectDir
    /\ result = "resolved"
    /\ cwd = Cwd0

\* -------------------------------------------------------------- C16
\* the place of a stage in the order the claim names: DestinationCheck,
\* SchemaBuild, Prompting, TemplateValidation, Render, LicenseGeneration,
\* DependencyInstall, VersionControlInit, HookExecution; 0 for what comes
\* before the first of them and 10 for what comes after the last
StageNumber(stage) ==
    CASE stage = "NameResolution" -> 0
      [] stage = "DestinationCheck" -> 1
      [] stage = "SchemaBuild" -> 2
      [] stage = "Prompting" -> 3
      [] stage = "TemplateValidation" -> 4
      [] stage = "Render" -> 5
      [] stage = "LicenseGeneration" -> 6
      [] stage = "DependencyInstall" -> 7
      [] stage = "VersionControlInit" -> 8
      [] stage = "HookExecution" -> 9
      [] OTHER -> 10

\* the first call each stage makes
StageStart ==
    << "isEmptyDir", "getYargsOptions", "yargsInteractive", "existsTemplate",
       "creatingMsg", "makeLicenseSync", "IsYarnAvailable", "initGit", "after" >>

\* the number of the stage that makes the call or print e
StageIndex(e) ==
    CASE e \in {"usage", "modifyName", "newProjectMsg"} -> 0
      [] e = "isEmptyDir" -> 1
      [] e = "getYargsOptions" -> 2
      [] e = "yargsInteractive" -> 3
      [] e = "existsTemplate" -> 4
      [] e \in {"creatingMsg", "copy"} -> 5
      [] e \in {"makeLicenseSync", "writeLicense"} -> 6
      [] e \in {"IsYarnAvailable", "existsManifest", "installingMsg", "installDeps"} -> 7
      [] e \in {"initGit", "gitMsg"} -> 8
      [] e \in {"after", "run", "installNpmPackage"} -> 9
      [] OTHER -> 10

\* C16: the stages run one after another in the order DestinationCheck,
\* SchemaBuild, Prompting, TemplateValidation, Render, LicenseGeneration,
\* DependencyInstall, VersionControlInit, HookExecution: every step of create
\* is the step of the one stage create is at, all that is called or printed in
\* the step belongs to that stage, and the step ends create or leaves it at
\* the stage that comes next in this order.
C16_StagesInOrder ==
    [][ /\ Len(log') >= Len(log)
        /\ SubSeq(log', 1, Len(log)) = log
        /\ \A k \in (Len(log) + 1)..Len(log') : StageIndex(log'[k]) = StageNumber(pc)
        /\ \/ pc' = "done"
           \/ StageNumber(pc) < 10 /\ StageNumber(pc') = StageNumber(pc) + 1
           \/ StageNumber(pc) = 10 /\ StageNumber(pc') = 10 ]_vars

\* a run that went through all nine stages and resolved
C16_Witness ==
    /\ \A s \in 1..9 : InLog(StageStart[s])
    /\ InLog("installDeps")
    /\ result = "resolved"

\* -------------------------------------------------------------- C17
\* fs.stat answered that the chosen template directory is not there
TemplateDirMissing == templateStat = "ENOENT"

\* C17: when the chosen template directory, templateRoot joined with
\* templatePrefix and the chosen template, does not exist, create has rejected
\* with the 'No template found' error before copy was called: nothing is
\* rendered, no LICENSE is written, nothing is installed, git init and the
\* hook have not run.
C17_MissingTemplateRejected ==
    TemplateDirMissing =>
        /\ templateDir = PathResolve(options.templateRoot,
                                     options.templatePrefix \o template)
        /\ pc = "done"
        /\ result = "rejected"
        /\ error = NewError(<<"No template found">>)
        /\ LastLog = "existsTemplate"
        /\ \A e \in WritingEvents \cup {"installNpmPackage", "run", "successMsg"} : ~InLog(e)
        /\ copied = "unrun"
        /\ written = {}
        /\ licenseText = Undefined
        /\ spawned = <<>>
        /\ gitInit = GitNotRun

\* the template named on the command line is not among those on disk, in a
\* run with license generation, git init and a hook all enabled
C17_Witness ==
    /\ TemplateDirMissing
    /\ template = <<"ts">>
    /\ templateDir = <<"/", "tpl", "ts">>
    /\ ~options.skipLicense
    /\ ~options.skipGit
    /\ options.after = "installNpmPackage"
    /\ result = "rejected"

\* -------------------------------------------------------------- C18
\* copy was called and rejected
CopyFailed == copied = "failed"

\* C18: when copy fails, create has rejected with the error copy failed with
\* and no later stage has run: no LICENSE write, no probe for yarn and no
\* install, no git init, no hook, no caveat and no success message.
C18_RenderFailureAborts ==
    CopyFailed =>
        /\ pc = "done"
        /\ result = "rejected"
        /\ error = CopyE
        /\ LastLog = "copy"
        /\ \A e \in {"makeLicenseSync", "writeLicense", "IsYarnAvailable",
                      "existsManifest", "installDeps", "initGit", "after", "run",
                      "installNpmPackage", "successMsg", "caveatFn", "caveatMsg"} :
              ~InLog(e)
        /\ written = {}
        /\ licenseText = Undefined
        /\ spawned = <<>>
        /\ gitInit = GitNotRun
        /\ cwd = Cwd0

\* copy failed in a run with license generation, git init, a hook and a
\* caveat all enabled
C18_Witness ==
    /\ CopyFailed
    /\ ~options.skipLicense
    /\ ~options.skipGit
    /\ options.after = "run"
    /\ options.caveat = "string"
    /\ result = "rejected"
    /\ error = CopyE

\* -------------------------------------------------------------- C20
\* C20: create calls getYargsOptions with skipLicense true whatever the
\* caller's skipLicense option is; each of description, author, email and
\* license that options.extra does not define has prompt policy 'never', also
\* when license generation is enabled, and its answer is the value given on
\* the command line or else the option's default.
C20_LicensePromptsAlwaysSkipped ==
    call.called =>
        /\ call.skipLicense = TRUE
        /\ \A k \in LicenseOptionNames \ DOMAIN options.extra :
            /\ yargsOption[k].prompt = "never"
            /\ InLog("yargsInteractive") =>
                  args[k] = IF k \in DOMAIN cli THEN cli[k] ELSE yargsOption[k].default

\* license generation enabled, no extra options, a license named on the
\* command line: LICENSE was written from the command-line value and defaults
C20_Witness ==
    /\ call.called
    /\ ~options.skipLicense
    /\ options.extra = EmptyObject
    /\ K_license \in DOMAIN cli
    /\ args[K_license] = <<"ISC">>
    /\ args[K_description] = <<"description">>
    /\ "LICENSE" \in written

====
